---- MODULE Spec2Model ----
(***************************************************************************)
(* A model of plex-renamer's movie_tmdb.py.                                *)
(*                                                                         *)
(* Strings are sequences of one-character strings, paths are sequences of  *)
(* names.  Regular expressions are matched by an NFA simulation over the   *)
(* pattern's items, formatting and parsing are computed digit by digit.    *)
(*                                                                         *)
(* Specifications:                                                         *)
(*   SpecNames  SearchResult.__init__, make_filename, RE_GOOD_FN           *)
(*   SpecStrip  _strip_leading_info                                        *)
(*   SpecMove   move_to_folder applied to a path and then to its result    *)
(*   Spec       loop_path: walk, search, ask_user, rename, move_to_folder  *)
(***************************************************************************)
EXTENDS Integers, Sequences, FiniteSets

VARIABLES
    \* SearchResult / make_filename / RE_GOOD_FN
    npc, data, sr, stem, good,
    \* _strip_leading_info
    spc, sdata, sout,
    \* the filesystem and what was done to it
    disk, dirs, dry_run, exc, failed, ops,
    \* move_to_folder(p), then move_to_folder of its result
    mpc, mp, mq, mr, mops,
    \* loop_path
    tree, confirm, pc, todo, root, files, results, selection, lastInput,
    num_changed, num_files_moved, summary,
    searched, relocated, errors, abortRaised

namesVars == <<npc, data, sr, stem, good>>
stripVars == <<spc, sdata, sout>>
fsVars == <<disk, dirs, dry_run, exc, failed, ops>>
moveVars == <<mpc, mp, mq, mr, mops>>
loopVars == <<tree, confirm, pc, todo, root, files, results, selection, lastInput,
              num_changed, num_files_moved, summary,
              searched, relocated, errors, abortRaised>>
vars == <<namesVars, stripVars, fsVars, moveVars, loopVars>>

\* ------------------------------------------------------------ idle values

\* data without a 'release_date' key
NoKey == <<"KeyError">>

NoResult == [title |-> <<>>, id_ |-> 0, year |-> 0]
NoData == [title |-> <<>>, id |-> 0, release_date |-> NoKey]

NoPath == <<<<"None">>>>

NamesIdle ==
    /\ npc = "idle" /\ data = NoData /\ sr = NoResult /\ stem = <<>> /\ good = FALSE

StripIdle ==
    /\ spc = "idle" /\ sdata = <<>> /\ sout = <<>>

FsIdle ==
    /\ disk = {} /\ dirs = {} /\ dry_run = FALSE /\ exc = "none" /\ failed = "none"
    /\ ops = 0

MoveIdle ==
    /\ mpc = "idle" /\ mp = NoPath /\ mq = NoPath /\ mr = NoPath /\ mops = 0

NoInput == <<"None">>
NoSummary == [changed |-> -1, moved |-> -1]

LoopIdle ==
    /\ tree = 0 /\ confirm = FALSE /\ pc = "idle" /\ todo = <<>> /\ root = NoPath
    /\ files = <<>> /\ results = <<>> /\ selection = NoResult /\ lastInput = NoInput
    /\ num_changed = 0 /\ num_files_moved = 0 /\ summary = NoSummary
    /\ searched = 0 /\ relocated = 0 /\ errors = 0 /\ abortRaised = FALSE

\* ------------------------------------------------------------------ text

DigitChars == <<"0", "1", "2", "3", "4", "5", "6", "7", "8", "9">>

IsDigit(c) == \E i \in 1..10 : DigitChars[i] = c

DigitVal(c) == (CHOOSE i \in 1..10 : DigitChars[i] = c) - 1

\* str.strip() / whitespace
Whitespace == {" ", "\n", "\t"}

RECURSIVE LStrip(_, _)
LStrip(s, chars) ==
    IF s # <<>> /\ Head(s) \in chars THEN LStrip(Tail(s), chars) ELSE s

RECURSIVE RStrip(_, _)
RStrip(s, chars) ==
    IF s # <<>> /\ s[Len(s)] \in chars
    THEN RStrip(SubSeq(s, 1, Len(s) - 1), chars)
    ELSE s

Strip(s) == RStrip(LStrip(s, Whitespace), Whitespace)

\* str(n) for an int n: no padding, a leading "-" for a negative
RECURSIVE NatToStr(_)
NatToStr(n) ==
    IF n < 10 THEN <<DigitChars[n + 1]>>
    ELSE NatToStr(n \div 10) \o <<DigitChars[(n % 10) + 1]>>

IntToStr(n) == IF n < 0 THEN <<"-">> \o NatToStr(-n) ELSE NatToStr(n)

\* the value of a run of decimal digits
RECURSIVE DigitsToNat(_)
DigitsToNat(s) ==
    IF s = <<>> THEN 0
    ELSE 10 * DigitsToNat(SubSeq(s, 1, Len(s) - 1)) + DigitVal(s[Len(s)])

AllDigits(s) == \A i \in 1..Len(s) : IsDigit(s[i])

\* ------------------------------------------------------------ regex

\* character classes of the patterns
Dot == [kind |-> "dot", chars |-> {}]
Dig == [kind |-> "digit", chars |-> {}]
Lit(c) == [kind |-> "set", chars |-> {c}]
OneOf(S) == [kind |-> "set", chars |-> S]

\* "." does not match a line break (no DOTALL flag)
ClassHas(cls, c) ==
    CASE cls.kind = "dot" -> c # "\n"
      [] cls.kind = "digit" -> IsDigit(c)
      [] OTHER -> c \in cls.chars

One(cls) == [cls |-> cls, rep |-> "one"]
Plus(cls) == [cls |-> cls, rep |-> "plus"]
Star(cls) == [cls |-> cls, rep |-> "star"]

\* NFA state i: items 1..i are matched.  A star item may be skipped.
RECURSIVE Closure(_, _)
Closure(re, S) ==
    LET T == S \cup {i + 1 : i \in {j \in S : j < Len(re) /\ re[j + 1].rep = "star"}}
    IN  IF T = S THEN S ELSE Closure(re, T)

StepNFA(re, S, c) ==
    Closure(re,
        {i + 1 : i \in {j \in S : j < Len(re) /\ ClassHas(re[j + 1].cls, c)}}
        \cup {i \in S : i >= 1 /\ re[i].rep \in {"plus", "star"} /\ ClassHas(re[i].cls, c)})

RECURSIVE RunNFA(_, _, _)
RunNFA(re, S, s) ==
    IF s = <<>> THEN S ELSE RunNFA(re, StepNFA(re, S, Head(s)), Tail(s))

\* Pattern.fullmatch: the whole string is consumed ("^" and "$" then hold)
FullMatch(re, s) == Len(re) \in RunNFA(re, Closure(re, {0}), s)

\* ^.+ \(\d{4}\) \{t[mv]db-\d+\}$   with \d{4} a run of three digits
RE_GOOD_FN_3digits ==
    <<Plus(Dot), One(Lit(" ")), One(Lit("(")), One(Dig), One(Dig), One(Dig),
      One(Lit(")")), One(Lit(" ")), One(Lit("{")),
      One(Lit("t")), One(OneOf({"m", "v"})), One(Lit("d")), One(Lit("b")),
      One(Lit("-")), Plus(Dig), One(Lit("}"))>>

\* RE_GOOD_FN = re.compile(r"^.+ \(\d{4}\) \{t[mv]db-\d+\}$")
RE_GOOD_FN ==
    <<Plus(Dot), One(Lit(" ")), One(Lit("(")), One(Dig), One(Dig), One(Dig), One(Dig),
      One(Lit(")")), One(Lit(" ")), One(Lit("{")),
      One(Lit("t")), One(OneOf({"m", "v"})), One(Lit("d")), One(Lit("b")),
      One(Lit("-")), Plus(Dig), One(Lit("}"))>>

\* RE_GOOD_FN.fullmatch(stem) is not None
IsGoodFn(s) == FullMatch(RE_GOOD_FN, s)

\* ------------------------------------------------- SearchResult, make_filename

INVALID_FILENAME_CHARS == {"<", ">", ":", "\"", "/", "\\", "|", "?", "*"}

DefaultYear == 1970

IsLeap(y) == (y % 4 = 0 /\ y % 100 # 0) \/ y % 400 = 0

DaysInMonth(y, m) ==
    IF m = 2 THEN (IF IsLeap(y) THEN 29 ELSE 28)
    ELSE IF m \in {4, 6, 9, 11} THEN 30 ELSE 31

\* date.fromisoformat on YYYY-MM-DD: 0 stands for ValueError
FromIsoYear(s) ==
    IF /\ Len(s) = 10
       /\ s[5] = "-" /\ s[8] = "-"
       /\ AllDigits(SubSeq(s, 1, 4)) /\ AllDigits(SubSeq(s, 6, 7))
       /\ AllDigits(SubSeq(s, 9, 10))
    THEN LET y == DigitsToNat(SubSeq(s, 1, 4))
             m == DigitsToNat(SubSeq(s, 6, 7))
             d == DigitsToNat(SubSeq(s, 9, 10))
         IN  IF y >= 1 /\ m \in 1..12 /\ d \in 1..DaysInMonth(y, m) THEN y ELSE 0
    ELSE 0

\* SearchResult.__init__
SearchResult(d) ==
    [title |-> d.title,
     id_ |-> d.id,
     year |-> IF d.release_date = NoKey THEN DefaultYear
              ELSE IF FromIsoYear(d.release_date) = 0 THEN DefaultYear
              ELSE FromIsoYear(d.release_date)]

FIXME == <<"F", "I", "X", "M", "E">>

CleanTitle(title) == SelectSeq(title, LAMBDA c : c \notin INVALID_FILENAME_CHARS)

\* make_filename
make_filename(result) ==
    LET clean_title == IF CleanTitle(result.title) = <<>> THEN FIXME
                       ELSE CleanTitle(result.title)
    IN  clean_title \o <<" ", "(">> \o IntToStr(result.year) \o <<")">>
        \o <<" ", "{", "t", "m", "d", "b", "-">> \o IntToStr(result.id_) \o <<"}">>

\* ------------------------------------------------------------ SpecNames

Titles ==
    {<<"f", "o", "o">>, <<"?">>, <<"W", "h", "o", "?">>, <<>>,
     <<"a", " ", "(", "b", ")">>}

Ids == {0, 7, 123}

ReleaseDates ==
    {<<"2", "0", "3", "1", "-", "0", "3", "-", "0", "3">>,
     <<"0", "9", "9", "9", "-", "0", "1", "-", "0", "1">>,
     <<"2", "0", "2", "3", "-", "0", "2", "-", "3", "0">>,
     <<"1", "9", "8", "0", "-", "1", "3", "-", "0", "1">>,
     <<>>,
     NoKey}

SearchRecords == [title : Titles, id : Ids, release_date : ReleaseDates]

\* stems as found on disk, put together from well- and ill-formed parts
StemTitles == {<<>>, <<"a">>, <<"a", " ", "(", "b", ")">>, <<"a", "\n">>}
StemSeps == {<<" ">>, <<>>}
StemYears ==
    {<<"(", "1", "2", "3", "4", ")">>, <<"[", "1", "2", "3", "4", "]">>,
     <<"(", "1", "3", "4", ")">>, <<"(", "1", "2", "3", "4", "5", ")">>,
     <<"(", "1", "2", "a", "4", ")">>}
StemTags ==
    {<<"{", "t", "m", "d", "b", "-">>, <<"{", "t", "v", "d", "b", "-">>,
     <<"{", "i", "m", "d", "b", "-">>, <<"{", "t", "m", "d", "b">>,
     <<"t", "m", "d", "b", "-">>}
StemIds == {<<>>, <<"1">>, <<"1", "2", "3">>, <<"1", "a">>}
StemCloses == {<<"}">>, <<>>}
StemTrails == {<<>>, <<"x">>, <<"\n">>}

RawStems ==
    {t \o s \o y \o <<" ">> \o g \o i \o c \o r :
        t \in StemTitles, s \in StemSeps, y \in StemYears, g \in StemTags,
        i \in StemIds, c \in StemCloses, r \in StemTrails}

InitNames ==
    /\ sr = NoResult
    /\ good = FALSE
    /\ \/ /\ npc = "data" /\ data \in SearchRecords /\ stem = <<>>
       \/ /\ npc = "stem" /\ data = NoData /\ stem \in RawStems
    /\ StripIdle /\ FsIdle /\ MoveIdle /\ LoopIdle

\* results = [SearchResult(r) for r in search.results]
Construct ==
    /\ npc = "data"
    /\ sr' = SearchResult(data)
    /\ npc' = "result"
    /\ UNCHANGED <<data, stem, good, stripVars, fsVars, moveVars, loopVars>>

\* new_fn = make_filename(result)
MakeFilename ==
    /\ npc = "result"
    /\ stem' = make_filename(sr)
    /\ npc' = "made"
    /\ UNCHANGED <<data, sr, good, stripVars, fsVars, moveVars, loopVars>>

\* RE_GOOD_FN.fullmatch(fp.stem) is not None
Recognize ==
    /\ npc \in {"made", "stem"}
    /\ good' = IsGoodFn(stem)
    /\ npc' = IF npc = "made" THEN "made_checked" ELSE "stem_checked"
    /\ UNCHANGED <<data, sr, stem, stripVars, fsVars, moveVars, loopVars>>

NextNames == Construct \/ MakeFilename \/ Recognize

SpecNames == InitNames /\ [][NextNames]_vars

\* ------------------------------------------------- _strip_leading_info

\* The pattern text "^(.*? - )(.*-.*$)" as written: group 1 and group 2
PattGroup1Text == <<Star(Dot), One(Lit(" ")), One(Lit("-")), One(Lit(" "))>>
PattGroup2Text == <<Star(Dot), One(Lit("-")), Star(Dot)>>

IsPatternSpace(item) ==
    item.cls.kind = "set" /\ item.cls.chars \subseteq Whitespace

\* re.VERBOSE: whitespace in the pattern text is not part of the pattern
Verbose(re) == SelectSeq(re, LAMBDA item : ~IsPatternSpace(item))

\* the split points at which both groups match the whole of data
SplitPoints(s) ==
    {k \in 0..Len(s) :
        /\ FullMatch(Verbose(PattGroup1Text), SubSeq(s, 1, k))
        /\ FullMatch(Verbose(PattGroup2Text), SubSeq(s, k + 1, Len(s)))}

\* _strip_leading_info: ".*?" is lazy, so group 1 ends at the first split point
strip_leading_info(s) ==
    IF SplitPoints(s) # {}
    THEN LET k == CHOOSE i \in SplitPoints(s) : \A j \in SplitPoints(s) : i <= j
         IN  Strip(SubSeq(s, k + 1, Len(s)))
    ELSE s

\* ------------------------------------------------------------ SpecStrip

MaxStripLen == 6

StripAlphabet == {"a", " ", "-"}

RECURSIVE StringsUpTo(_, _)
StringsUpTo(A, n) ==
    IF n = 0 THEN {<<>>}
    ELSE LET S == StringsUpTo(A, n - 1)
         IN  S \cup {Append(s, c) : s \in {x \in S : Len(x) = n - 1}, c \in A}

StripInputs ==
    StringsUpTo(StripAlphabet, MaxStripLen)
    \cup {<<"h", "e", "l", "l", "o">>,
          <<"f", "o", "o", " ", "-", " ", "b", "a", "r">>,
          <<"g", " ", "-", " ", "1", "1", " ", "-", " ", "t">>,
          <<"a", " ", "-", " ", "b", "-", "c">>,
          <<"a", "-", "b", "-", "c">>}

InitStrip ==
    /\ spc = "start"
    /\ sdata \in StripInputs
    /\ sout = <<>>
    /\ NamesIdle /\ FsIdle /\ MoveIdle /\ LoopIdle

\* best_guess = _strip_leading_info(best_guess)
StripLeadingInfo ==
    /\ spc = "start"
    /\ sout' = strip_leading_info(sdata)
    /\ spc' = "done"
    /\ UNCHANGED <<sdata, namesVars, fsVars, moveVars, loopVars>>

NextStrip == StripLeadingInfo

SpecStrip == InitStrip /\ [][NextStrip]_vars

\* ------------------------------------------------------------ paths

\* A path is the sequence of its names below "/".  Path.name
Name(fp) == IF fp = <<>> THEN <<>> ELSE fp[Len(fp)]

\* Path.parent
Parent(fp) == IF fp = <<>> THEN <<>> ELSE SubSeq(fp, 1, Len(fp) - 1)

\* name.rfind("."), counted from 1; 0 when there is no dot
LastDot(name) ==
    IF \E i \in 1..Len(name) : name[i] = "."
    THEN CHOOSE i \in 1..Len(name) :
            name[i] = "." /\ \A j \in (i + 1)..Len(name) : name[j] # "."
    ELSE 0

\* a suffix starts at a dot that is neither the first nor the last character
\* (pathlib up to Python 3.12)
HasSuffix(name) == 1 < LastDot(name) /\ LastDot(name) < Len(name)

\* Path.suffix
Suffix(fp) ==
    IF HasSuffix(Name(fp)) THEN SubSeq(Name(fp), LastDot(Name(fp)), Len(Name(fp)))
    ELSE <<>>

\* Path.stem
Stem(fp) ==
    IF HasSuffix(Name(fp)) THEN SubSeq(Name(fp), 1, LastDot(Name(fp)) - 1)
    ELSE Name(fp)

\* path / name: an empty or "." segment adds nothing
Join(fp, name) == IF name \in {<<>>, <<".">>} THEN fp ELSE Append(fp, name)

\* Path.with_name
WithName(fp, name) == Append(Parent(fp), name)

\* str.lower() on the letters the names use
Lower(c) ==
    CASE c = "A" -> "a" [] c = "V" -> "v" [] c = "I" -> "i" [] c = "M" -> "m"
      [] c = "K" -> "k" [] c = "T" -> "t" [] c = "X" -> "x" [] OTHER -> c

LowerStr(s) == [i \in 1..Len(s) |-> Lower(s[i])]

VIDEO_EXT ==
    {<<".", "a", "v", "i">>, <<".", "m", "p", "4">>, <<".", "m", "k", "v">>,
     <<".", "m", "4", "v">>, <<".", "o", "g", "m">>}

\* ------------------------------------------------------------ filesystem

\* The filesystem is a record: disk, the files [path, id]; dirs, the
\* directories; exc, the exception an operation raised ("none": none) and
\* failed, that operation; ops, the number of mkdir and rename calls issued.
IsFile(st, fp) == \E f \in st.disk : f.path = fp

FileAt(st, fp) == CHOOSE f \in st.disk : f.path = fp

\* Path.mkdir(): the directory must not exist yet
Mkdir(st, d, denied) ==
    IF st.exc # "none" THEN st
    ELSE IF d \in st.dirs \/ IsFile(st, d)
    THEN [st EXCEPT !.exc = "FileExistsError", !.failed = "mkdir", !.ops = @ + 1]
    ELSE IF denied
    THEN [st EXCEPT !.exc = "PermissionError", !.failed = "mkdir", !.ops = @ + 1]
    ELSE [st EXCEPT !.dirs = @ \cup {d}, !.ops = @ + 1]

\* Path.rename(target) on POSIX: an existing target file is replaced silently
Rename(st, src, dst, denied) ==
    IF st.exc # "none" THEN st
    ELSE IF ~IsFile(st, src)
    THEN [st EXCEPT !.exc = "FileNotFoundError", !.failed = "rename", !.ops = @ + 1]
    ELSE IF denied
    THEN [st EXCEPT !.exc = "PermissionError", !.failed = "rename", !.ops = @ + 1]
    ELSE IF dst \in st.dirs
    THEN [st EXCEPT !.exc = "IsADirectoryError", !.failed = "rename", !.ops = @ + 1]
    ELSE IF src = dst THEN [st EXCEPT !.ops = @ + 1]
    ELSE [st EXCEPT
            !.disk = {f \in @ : f.path \notin {src, dst}}
                     \cup {[path |-> dst, id |-> FileAt(st, src).id]},
            !.ops = @ + 1]

\* new_path = fp.parent / folder_name / fp.name
NewPath(fp) == Join(Join(Parent(fp), Stem(fp)), Name(fp))

\* fp.parent.name != folder_name
NeedsMove(fp) == Name(Parent(fp)) # Stem(fp)

\* move_to_folder: the filesystem after it and what it returns.  `denied`
\* names the operation the system refuses: "mkdir", "rename" or "none".
move_to_folder(st, fp, dry, denied) ==
    IF ~NeedsMove(fp) THEN [st |-> st, ret |-> NoPath]
    ELSE IF dry THEN [st |-> st, ret |-> NewPath(fp)]
    ELSE LET made == Mkdir(st, Parent(NewPath(fp)), denied = "mkdir")
             moved == Rename(made, fp, NewPath(fp), denied = "rename")
         IN  [st |-> moved,
              ret |-> IF moved.exc = "none" THEN NewPath(fp) ELSE NoPath]

Fs == [disk |-> disk, dirs |-> dirs, exc |-> exc, failed |-> failed, ops |-> ops]

SetFs(st) ==
    /\ disk' = st.disk /\ dirs' = st.dirs /\ exc' = st.exc /\ failed' = st.failed
    /\ ops' = st.ops

Denials == {"none", "mkdir", "rename"}

\* ------------------------------------------------------------ SpecMove

AVI == <<".", "a", "v", "i">>

\* "z (1970) {tmdb-1}"
CanonStem ==
    <<"z", " ", "(", "1", "9", "7", "0", ")", " ", "{", "t", "m", "d", "b", "-", "1", "}">>

MoveDirs == {<<>>, <<<<"m">>>>, <<<<"m">>, <<"a">>>>, <<<<"m">>, CanonStem>>}

MoveNames ==
    {<<"a">> \o AVI, <<"a">>, AVI, <<".">> \o AVI, <<"a", ".", "b">> \o AVI,
     <<"a", ".">>, CanonStem \o AVI}

RECURSIVE Ancestors(_)
Ancestors(fp) == IF fp = <<>> THEN {<<>>} ELSE {fp} \cup Ancestors(Parent(fp))

InitMove ==
    /\ mpc = "start"
    /\ mp \in {Append(d, n) : d \in MoveDirs, n \in MoveNames}
    /\ mq = NoPath /\ mr = NoPath /\ mops = 0
    /\ disk = {[path |-> mp, id |-> 1]}
    /\ dirs = Ancestors(Parent(mp))
    /\ dry_run \in BOOLEAN
    /\ exc = "none" /\ failed = "none" /\ ops = 0
    /\ NamesIdle /\ StripIdle /\ LoopIdle

\* q = move_to_folder(p, dry_run)
MoveFirst ==
    /\ mpc = "start"
    /\ \E denied \in Denials :
        LET r == move_to_folder(Fs, mp, dry_run, denied)
        IN  /\ SetFs(r.st)
            /\ mq' = r.ret
            /\ mpc' = IF r.st.exc # "none" THEN "raised" ELSE "first"
    /\ UNCHANGED <<dry_run, mp, mr, mops, namesVars, stripVars, loopVars>>

\* move_to_folder(q, dry_run) for the path q the first call returned
MoveSecond ==
    /\ mpc = "first" /\ mq # NoPath
    /\ \E denied \in Denials :
        LET r == move_to_folder(Fs, mq, dry_run, denied)
        IN  /\ SetFs(r.st)
            /\ mr' = r.ret
            /\ mops' = r.st.ops - ops
            /\ mpc' = IF r.st.exc # "none" THEN "raised" ELSE "second"
    /\ UNCHANGED <<dry_run, mp, mq, namesVars, stripVars, loopVars>>

NextMove == MoveFirst \/ MoveSecond

SpecMove == InitMove /\ [][NextMove]_vars

\* ------------------------------------------------------------ ask_user

\* int(val): optional blanks around an optional sign and a run of digits
Unsigned(val) ==
    IF Strip(val) # <<>> /\ Head(Strip(val)) \in {"-", "+"} THEN Tail(Strip(val))
    ELSE Strip(val)

IsIntLiteral(val) == Unsigned(val) # <<>> /\ AllDigits(Unsigned(val))

IntOf(val) ==
    IF Head(Strip(val)) = "-" THEN -DigitsToNat(Unsigned(val))
    ELSE DigitsToNat(Unsigned(val))

\* one turn of ask_user's loop without the check of val < 0
ask_user_no_lower_bound(res, val) ==
    IF val # <<>> /\ ~IsIntLiteral(val) THEN [kind |-> "again", sel |-> NoResult]
    ELSE LET v == IF val = <<>> THEN 1 ELSE IntOf(val)
         IN  IF v = 0 THEN [kind |-> "raise", sel |-> NoResult]
             ELSE IF v > Len(res) THEN [kind |-> "again", sel |-> NoResult]
             ELSE [kind |-> "return",
                   sel |-> res[IF v >= 1 \/ Len(res) + v < 1 THEN 1 ELSE Len(res) + v]]

\* one turn of ask_user's `while True` loop on the input val: "again" (the
\* message is printed and the prompt repeated), "raise" (RuntimeError) or
\* "return" with the selection.  An input of "b" first enters the debugger,
\* which changes nothing here.
ask_user_turn(res, val) ==
    IF val # <<>> /\ ~IsIntLiteral(val) THEN [kind |-> "again", sel |-> NoResult]
    ELSE LET v == IF val = <<>> THEN 1 ELSE IntOf(val)
         IN  IF v = 0 THEN [kind |-> "raise", sel |-> NoResult]
             ELSE IF v < 0 \/ v > Len(res) THEN [kind |-> "again", sel |-> NoResult]
             ELSE [kind |-> "return", sel |-> res[v]]

\* ask_user returns at once, without a prompt
SingleResult(res, conf) == Len(res) = 1 /\ ~conf

\* ------------------------------------------------------------ loop_path

\* code points order the characters the file names use
CharOrder ==
    <<" ", "(", ")", "-", ".", "0", "1", "2", "3", "4", "5", "6", "7", "8", "9",
      "A", "I", "V", "a", "b", "c", "d", "i", "k", "m", "n", "s", "t", "v", "x",
      "y", "z", "{", "}">>

Code(c) == CHOOSE i \in 1..Len(CharOrder) : CharOrder[i] = c

RECURSIVE LessStr(_, _)
LessStr(a, b) ==
    IF b = <<>> THEN FALSE
    ELSE IF a = <<>> THEN TRUE
    ELSE IF Head(a) = Head(b) THEN LessStr(Tail(a), Tail(b))
    ELSE Code(Head(a)) < Code(Head(b))

\* sorted(files)
RECURSIVE Sorted(_)
Sorted(S) ==
    IF S = {} THEN <<>>
    ELSE LET m == CHOOSE x \in S : \A y \in S : x = y \/ LessStr(x, y)
         IN  <<m>> \o Sorted(S \ {m})

\* the orders in which scandir may list a set of directories
Orders(S) ==
    {o \in [1..Cardinality(S) -> S] : \A i, j \in 1..Cardinality(S) : o[i] = o[j] => i = j}

\* create_new_filepath
create_new_filepath(fp, result) == WithName(fp, make_filename(result) \o Suffix(fp))

\* the rename is done in a dry run too
MutatesAlways(dry) == TRUE

\* `if not dry_run:` before the rename
Mutates(dry) == ~dry

\* fp.rename(new_fp); move_to_folder(new_fp)
rename_and_move(st, fp, new_fp, denied) ==
    LET renamed == Rename(st, fp, new_fp, denied = "rename_file")
    IN  IF renamed.exc # "none" THEN [st |-> renamed, ret |-> NoPath]
        ELSE move_to_folder(renamed, new_fp, FALSE, denied)

\* `except PermissionError:` is the only handler of loop_path
Caught(e) == e = "PermissionError"

\* the user's abort is handled like a permission failure: next file
AbortSkipsFile == "walk"

\* RuntimeError("User aborted") has no handler: it ends loop_path
AbortPc == "aborted"

\* the search results of the model: two movies
Movies ==
    {SearchResult([title |-> <<"z">>, id |-> 1, release_date |-> <<>>]),
     SearchResult([title |-> <<"y", "?">>, id |-> 2,
                   release_date |-> <<"2", "0", "3", "1", "-", "0", "3", "-", "0", "3">>])}

MaxResults == 2

ResultLists == UNION {[1..n -> Movies] : n \in 0..MaxResults}

\* what the user may type at the prompt
Inputs ==
    {<<>>, <<"x">>, <<"b">>, <<" ", "1">>} \cup {IntToStr(k) : k \in -1..(MaxResults + 1)}

M == <<"m">>

File(fp, id) == [path |-> fp, id |-> id]

\* the directory trees a run may start from
Trees ==
    <<[disk |-> {File(<<M, <<"a">> \o AVI>>, 1),
                 File(<<M, <<"b", ".", "m", "k", "v">>>>, 2),
                 File(<<M, <<"n", ".", "t", "x", "t">>>>, 3)},
       dirs |-> {<<>>, <<M>>}],
      [disk |-> {File(<<M, <<"a">> \o AVI>>, 1),
                 File(<<M, CanonStem \o AVI>>, 2)},
       dirs |-> {<<>>, <<M>>}],
      [disk |-> {File(<<M, CanonStem, CanonStem \o AVI>>, 1),
                 File(<<M, <<"s">>, <<"c", ".", "A", "V", "I">>>>, 2)},
       dirs |-> {<<>>, <<M>>, <<M, CanonStem>>, <<M, <<"s">>>>}],
      [disk |-> {File(<<M, CanonStem \o AVI>>, 1),
                 File(<<M, CanonStem \o <<".", "m", "k", "v">>>>, 2),
                 File(<<M, <<"s">>, <<"a">> \o AVI>>, 3)},
       dirs |-> {<<>>, <<M>>, <<M, <<"s">>>>}]>>

Init ==
    /\ tree \in 1..Len(Trees)
    /\ disk = Trees[tree].disk /\ dirs = Trees[tree].dirs
    /\ dry_run \in BOOLEAN /\ confirm \in BOOLEAN
    /\ exc = "none" /\ failed = "none" /\ ops = 0
    /\ pc = "walk" /\ todo = <<<<M>>>> /\ root = NoPath /\ files = <<>>
    /\ results = <<>> /\ selection = NoResult /\ lastInput = NoInput
    /\ num_changed = 0 /\ num_files_moved = 0 /\ summary = NoSummary
    /\ searched = 0 /\ relocated = 0 /\ errors = 0 /\ abortRaised = FALSE
    /\ NamesIdle /\ StripIdle /\ MoveIdle

\* os.walk yields the next directory: its files as they are now, and its
\* subdirectories, in scandir's order, are walked before the pending ones
ScanDir ==
    /\ pc = "walk" /\ files = <<>> /\ todo # <<>>
    /\ root' = Head(todo)
    /\ files' = Sorted({Name(f.path) : f \in {g \in disk : Parent(g.path) = Head(todo)}})
    /\ \E o \in Orders({d \in dirs : d # <<>> /\ Parent(d) = Head(todo)}) :
            todo' = o \o Tail(todo)
    /\ UNCHANGED <<tree, confirm, pc, results, selection, lastInput, num_changed,
                   num_files_moved, summary, searched, relocated, errors, abortRaised,
                   fsVars, namesVars, stripVars, moveVars>>

\* the file being handled
fp == Append(root, Head(files))

\* from create_new_filepath to the end of the `try`, for the selection sel
RenameTo(sel, denied) ==
    LET r == IF Mutates(dry_run)
             THEN rename_and_move(Fs, fp, create_new_filepath(fp, sel), denied)
             ELSE [st |-> Fs, ret |-> NoPath]
    IN  /\ selection' = sel
        /\ num_changed' = num_changed + 1
        /\ SetFs(IF Caught(r.st.exc) THEN [r.st EXCEPT !.exc = "none", !.failed = "none"]
                 ELSE r.st)
        /\ errors' = IF Caught(r.st.exc) THEN errors + 1 ELSE errors
        /\ relocated' = IF r.ret # NoPath THEN relocated + 1 ELSE relocated
        /\ pc' = IF r.st.exc = "none" \/ Caught(r.st.exc) THEN "walk" ELSE "crashed"
        /\ files' = Tail(files)

\* one turn of `for file in sorted(files)`, up to the prompt of ask_user
ProcessFile ==
    /\ pc = "walk" /\ files # <<>>
    /\ \/ \* not a video file
          /\ LowerStr(Suffix(fp)) \notin VIDEO_EXT
          /\ files' = Tail(files)
          /\ UNCHANGED <<pc, results, selection, lastInput, num_changed, num_files_moved,
                         searched, relocated, errors, fsVars>>
       \/ \* already looks good: move_to_folder only
          /\ LowerStr(Suffix(fp)) \in VIDEO_EXT
          /\ IsGoodFn(Stem(fp))
          /\ \E denied \in Denials :
                LET r == move_to_folder(Fs, fp, dry_run, denied)
                IN  /\ SetFs(r.st)
                    /\ pc' = IF r.st.exc = "none" THEN "walk" ELSE "crashed"
                    /\ num_files_moved' =
                            IF r.ret # NoPath THEN num_files_moved + 1 ELSE num_files_moved
                    /\ relocated' =
                            IF r.ret # NoPath /\ ~dry_run THEN relocated + 1 ELSE relocated
          /\ files' = Tail(files)
          /\ UNCHANGED <<dry_run, results, selection, lastInput, num_changed, searched,
                         errors>>
       \/ \* search, and ask_user when it returns without a prompt
          /\ LowerStr(Suffix(fp)) \in VIDEO_EXT
          /\ ~IsGoodFn(Stem(fp))
          /\ searched' = searched + 1
          /\ \E res \in ResultLists :
                \/ /\ res = <<>>
                   /\ files' = Tail(files)
                   /\ UNCHANGED <<pc, results, selection, lastInput, num_changed,
                                  relocated, errors, fsVars>>
                \/ /\ res # <<>> /\ SingleResult(res, confirm)
                   /\ \E denied \in Denials \cup {"rename_file"} : RenameTo(res[1], denied)
                   /\ UNCHANGED <<dry_run, results, lastInput>>
                \/ /\ res # <<>> /\ ~SingleResult(res, confirm)
                   /\ pc' = "ask" /\ results' = res /\ lastInput' = NoInput
                   /\ UNCHANGED <<files, selection, num_changed, relocated, errors,
                                  fsVars>>
          /\ UNCHANGED num_files_moved
    /\ UNCHANGED <<tree, confirm, todo, root, summary, abortRaised,
                   namesVars, stripVars, moveVars>>

\* the user answers the prompt of ask_user
Prompt ==
    /\ pc = "ask"
    /\ \E val \in Inputs :
        LET turn == ask_user_turn(results, val)
        IN  /\ lastInput' = val
            /\ \/ /\ turn.kind = "again"
                  /\ UNCHANGED <<pc, files, selection, num_changed, relocated, errors,
                                 abortRaised, fsVars>>
               \/ /\ turn.kind = "raise"
                  /\ abortRaised' = TRUE
                  /\ pc' = AbortPc
                  /\ exc' = IF AbortPc = "aborted" THEN "RuntimeError" ELSE exc
                  /\ files' = IF AbortPc = "aborted" THEN files ELSE Tail(files)
                  /\ UNCHANGED <<selection, num_changed, relocated, errors,
                                 disk, dirs, dry_run, failed, ops>>
               \/ /\ turn.kind = "return"
                  /\ \E denied \in Denials \cup {"rename_file"} : RenameTo(turn.sel, denied)
                  /\ UNCHANGED <<dry_run, abortRaised>>
    /\ UNCHANGED <<tree, confirm, todo, root, results, num_files_moved, summary, searched,
                   namesVars, stripVars, moveVars>>

\* the walk is over: the two counts are logged
Finish ==
    /\ pc = "walk" /\ files = <<>> /\ todo = <<>>
    /\ summary' = [changed |-> num_changed, moved |-> num_files_moved]
    /\ pc' = "done"
    /\ UNCHANGED <<tree, confirm, todo, root, files, results, selection, lastInput,
                   num_changed, num_files_moved, searched, relocated, errors, abortRaised,
                   fsVars, namesVars, stripVars, moveVars>>

Next == ScanDir \/ ProcessFile \/ Prompt \/ Finish

Spec == Init /\ [][Next]_vars

\* ------------------------------------------------------------ claims

\* C1: every stem make_filename produces from a SearchResult built from a
\* search record is accepted by RE_GOOD_FN.fullmatch (round-trip law).
C1_RoundTrip == npc = "made_checked" => good

\* the shape <title> (<4 digits>) {t<x>db-<digits>}, x one of tagLetters,
\* the title 1 or more characters, none of them in `excluded`
HasShape(s, tagLetters, excluded) ==
    \E k \in 1..Len(s), m \in 1..Len(s) :
        /\ Len(s) = k + 15 + m
        /\ \A i \in 1..k : s[i] \notin excluded
        /\ LET rest == SubSeq(s, k + 1, Len(s))
           IN  /\ rest[1] = " " /\ rest[2] = "("
               /\ AllDigits(SubSeq(rest, 3, 6))
               /\ rest[7] = ")" /\ rest[8] = " " /\ rest[9] = "{"
               /\ rest[10] = "t" /\ rest[11] \in tagLetters
               /\ rest[12] = "d" /\ rest[13] = "b" /\ rest[14] = "-"
               /\ AllDigits(SubSeq(rest, 15, 14 + m))
               /\ rest[15 + m] = "}"

Recognized == npc \in {"made_checked", "stem_checked"}

\* C2 (as stated): the recognizer accepts a stem if and only if it has the
\* shape <non-empty title> (<4 digits>) {tmdb-<1 or more digits>}; a stem with
\* any other tag is rejected.
C2_OnlyTmdbShape == Recognized => (good <=> HasShape(stem, {"m"}, {}))

\* C2 (amended): the recognizer accepts a stem if and only if it has the shape
\* <non-empty title without a line break> (<4 digits>) {tmdb-<digits>} or
\* ... {tvdb-<digits>}.
C2_TmdbOrTvdbShape == Recognized => (good <=> HasShape(stem, {"m", "v"}, {"\n"}))

\* a stem with a tvdb tag has been accepted
C2_Witness ==
    /\ npc = "stem_checked" /\ good
    /\ \E i \in 1..Len(stem) : stem[i] = "{" /\ stem[i + 2] = "v"

\* the text after the first " - " separator, <<"\n">> when there is none
\* (no input holds a line break on its own)
AfterFirstSeparator(s) ==
    LET seps == {i \in 1..(Len(s) - 2) : SubSeq(s, i, i + 2) = <<" ", "-", " ">>}
    IN  IF seps = {} THEN <<"\n">>
        ELSE SubSeq(s, (CHOOSE i \in seps : \A j \in seps : i <= j) + 3, Len(s))

HasSeparator(s) ==
    \E i \in 1..(Len(s) - 2) : SubSeq(s, i, i + 2) = <<" ", "-", " ">>

\* C9: the text up to and including the first " - " is dropped (result
\* trimmed) only when the remainder holds one more " - "; any other input is
\* returned unchanged.
C9_StripNeedsTwoSeparators ==
    spc = "done" =>
        sout = IF HasSeparator(sdata) /\ HasSeparator(AfterFirstSeparator(sdata))
               THEN Strip(AfterFirstSeparator(sdata))
               ELSE sdata

\* C7: when move_to_folder(p) returns q, q is <parent of p>/<stem of p>/<name
\* of p>, and move_to_folder(q) returns nothing and issues no mkdir and no
\* rename; a file whose parent's name is its stem is not moved.
C7_MoveIdempotent ==
    /\ (mpc \in {"first", "second"} /\ mq # NoPath) =>
            /\ Name(mq) = Name(mp)
            /\ Name(Parent(mq)) = Stem(mp)
            /\ Parent(Parent(mq)) = Parent(mp)
    /\ mpc = "second" => (mr = NoPath /\ mops = 0)
    /\ (mpc = "first" /\ Name(Parent(mp)) = Stem(mp)) => (mq = NoPath /\ ops = 0)

\* the tree the run started from
Disk0 == Trees[tree].disk
Dirs0 == Trees[tree].dirs

\* the video files of the starting tree that RE_GOOD_FN does not accept
ToSearch0 ==
    {f \in Disk0 : LowerStr(Suffix(f.path)) \in VIDEO_EXT /\ ~IsGoodFn(Stem(f.path))}

\* C3: in a dry run no mkdir and no rename is issued and the tree stays as it
\* was, in both branches; a run that reaches its end has searched for every
\* video file that is not canonical yet.
C3_DryRunChangesNothing ==
    dry_run =>
        /\ disk = Disk0 /\ dirs = Dirs0 /\ ops = 0
        /\ pc = "done" => searched = Cardinality(ToSearch0)

\* a finished dry run that planned a rename and a move of a canonical file
C3_Witness ==
    dry_run /\ pc = "done" /\ summary.changed >= 1 /\ summary.moved >= 1

\* C4: the moved total reported at the end of a run equals the number of
\* files move_to_folder relocated during it (a dry run relocates none and is
\* left out).
C4_MovedCountsEveryRelocation ==
    (pc = "done" /\ ~dry_run) => summary.moved = relocated

\* C5: a permission failure of a rename never ends the run, whichever branch
\* issued the rename.
C5_PermissionNeverAborts ==
    pc = "crashed" => ~(exc = "PermissionError" /\ failed = "rename")

\* C6: once the user has entered 0, the file asked about is neither renamed
\* nor moved, no later file is searched, asked about, renamed or moved, the
\* changes made before stay, and no summary is logged.
C6_AbortIsFatal ==
    /\ [](abortRaised => (pc = "aborted" /\ exc = "RuntimeError" /\ summary = NoSummary))
    /\ [][abortRaised' =>
            /\ disk' = disk /\ dirs' = dirs /\ ops' = ops
            /\ num_changed' = num_changed /\ num_files_moved' = num_files_moved
            /\ searched' = searched /\ files' = files /\ todo' = todo
            /\ (abortRaised => lastInput' = lastInput)]_vars

\* the user aborted after a file was renamed, with files left to handle
C6_Witness ==
    /\ abortRaised /\ pc = "aborted"
    /\ num_changed >= 1 /\ disk # Disk0 /\ Len(files) >= 2

\* ask_user has returned sel in this step
Returned(sel) == pc' # "ask" /\ ~abortRaised' /\ selection' = sel

\* C8: at the prompt, an empty input returns the first candidate, an integer
\* k in 1..N the k-th; any input that is no integer, or an integer below 0 or
\* above N, returns nothing, raises nothing, and the prompt is repeated.
C8_PromptLoop ==
    [][pc = "ask" =>
        IF lastInput' = <<>> THEN Returned(results[1])
        ELSE IF IsIntLiteral(lastInput') /\ IntOf(lastInput') \in 1..Len(results)
        THEN Returned(results[IntOf(lastInput')])
        ELSE IF IsIntLiteral(lastInput') /\ IntOf(lastInput') = 0
        THEN abortRaised'
        ELSE /\ pc' = "ask" /\ exc' = "none" /\ ~abortRaised'
             /\ UNCHANGED <<results, files, selection, num_changed, fsVars>>]_vars

\* a negative input has been rejected and the prompt is up again
C8_Witness == pc = "ask" /\ lastInput = <<"-", "1">> /\ Len(results) >= 2

\* C10: every file present before the run is present after it, under some
\* name; a rename never replaces another file.
C10_NoFileLost ==
    pc # "idle" => {f.id : f \in disk} = {f.id : f \in Disk0}

====
